---- MODULE Spec2Model ----
(***************************************************************************)
(* GST Litigation Tracker (src/app.py): the notice register kept in the    *)
(* Streamlit session, the "Process Documents" handler that extracts        *)
(* records with the AI client and concatenates them to the register, and   *)
(* the "Confirm Update" handler that sets the status of a selected row.    *)
(***************************************************************************)
EXTENDS Integers, Sequences, FiniteSets, TLC

\* ------------------------------------------------------------------ bounds
MaxRows == 2      \* rows the register may hold
MaxBatch == 2     \* objects in one response of the extraction client
MaxTicks == 1     \* Times holds MaxTicks + 1 consecutive seconds

\* --------------------------------------------------------------- constants
STATUS_OPTIONS == <<"Pending", "Under Review", "Replied", "Closed">>

StatusSet == {STATUS_OPTIONS[i] : i \in 1..Len(STATUS_OPTIONS)}

\* Cell values: NaN is the cell pandas fills in for a key a record lacks,
\* Absent marks a key that is not present in a JSON object.
NaN == "NaN"

Absent == "<absent>"

\* The fields asked of the extraction client that the model keeps.
ExtractedFields == {"Ref ID", "GSTIN", "Source"}

\* Keys a JSON object of the client may carry (it may also send a Status).
ObjectKeys == ExtractedFields \cup {"Status"}

\* Every column a register row can have.
Columns == ExtractedFields \cup {"Status", "Last Updated"}

IsEmptyRef(v) == v \in {NaN, Absent, "", "None"}

\* ------------------------------------------------------------------ inputs
Obj(ref, gstin, source, status) ==
    [k \in ObjectKeys |->
        IF k = "Ref ID" THEN ref
        ELSE IF k = "GSTIN" THEN gstin
        ELSE IF k = "Source" THEN source
        ELSE status]

\* The JSON objects the extraction client may return: two notices with the
\* same Ref ID and different facts (one carrying a Status of the client's
\* own), and an object with no key at all.
RawRecords ==
    { Obj("R1", "X", "a.pdf", Absent),
      Obj("R1", "Y", "b.pdf", "Disposed"),
      Obj(Absent, Absent, Absent, Absent) }

\* A response text is a sequence of tokens: brackets, prose, JSON objects
\* (an object token stands for the object and its separating comma).
LB == [k |-> "[", v |-> Obj(Absent, Absent, Absent, Absent)]

RB == [k |-> "]", v |-> Obj(Absent, Absent, Absent, Absent)]

Prose == [k |-> "prose", v |-> Obj(Absent, Absent, Absent, Absent)]

ObjTok(r) == [k |-> "obj", v |-> r]

Bodies(n) == UNION {[1..m -> RawRecords] : m \in 0..n}

Wrap(b) == <<LB>> \o [i \in 1..Len(b) |-> ObjTok(b[i])] \o <<RB>>

\* Texts with no JSON array in them, or a broken one.
Junk ==
    { <<>>,
      <<Prose>>,
      <<LB, RB, Prose, LB, RB>>,
      <<LB, ObjTok(Obj("R1", "X", "a.pdf", Absent)), Prose, RB>> }

Min(a, b) == IF a < b THEN a ELSE b

\* response.text of the client, with at most n objects; raises = the call
\* model.generate_content(prompt) raised.
Responses(n) ==
    [raises : {FALSE},
     text : {Wrap(b) : b \in Bodies(Min(n, MaxBatch))}
            \cup {<<Prose>> \o Wrap(b) \o <<Prose>> : b \in Bodies(Min(n, MaxBatch))}
            \cup Junk]
    \cup [raises : {TRUE}, text : {<<>>}]

\* Wall-clock readings of datetime.now(), in seconds.
Times == {59 + k : k \in 0..MaxTicks}

\* ------------------------------------------------------------------- state
VARIABLES
    notice_register,   \* st.session_state.notice_register: the rows
    columns,           \* its column labels
    now,               \* the last value datetime.now() returned
    last               \* the last handler run and its inputs

vars == <<notice_register, columns, now, last>>

NoOp ==
    [op |-> "none", has_text |-> FALSE,
     response |-> [raises |-> FALSE, text |-> <<>>],
     extracted |-> <<>>, selected_index |-> 0, new_status |-> "Pending"]

\* ----------------------------------------------------------------- helpers
\* datetime.now().strftime("%d-%m-%Y %H:%M"): the minute, seconds dropped.
Strftime(t) == ToString(t \div 60)

FirstIndex(text, k) ==
    IF \E i \in 1..Len(text) : text[i].k = k
    THEN CHOOSE i \in 1..Len(text) :
            text[i].k = k /\ \A j \in 1..(i - 1) : text[j].k # k
    ELSE 0

LastIndex(text, k) ==
    IF \E i \in 1..Len(text) : text[i].k = k
    THEN CHOOSE i \in 1..Len(text) :
            text[i].k = k /\ \A j \in (i + 1)..Len(text) : text[j].k # k
    ELSE 0

\* re.search(r"\[.*\]", text, re.DOTALL): from the first "[" to the last
\* "]" after it; <<>> when there is no match.
ReSearch(text) ==
    LET i == FirstIndex(text, "[")
        j == LastIndex(text, "]")
    IN  IF i > 0 /\ j > i THEN SubSeq(text, i, j) ELSE <<>>

\* json.loads of a span that starts with "[" and ends with "]" succeeds
\* when what lies between is a list of objects.
JsonValid(span) == \A m \in 2..(Len(span) - 1) : span[m].k = "obj"

JsonLoads(span) == [m \in 1..(Len(span) - 2) |-> span[m + 1].v]

extract_with_ai_batch_lenient(response) ==
    IF response.raises THEN <<>>
    ELSE LET objs == SelectSeq(response.text, LAMBDA tok : tok.k = "obj")
         IN  [m \in 1..Len(objs) |-> objs[m].v]

extract_with_ai_batch(response) ==
    IF response.raises
    THEN <<>>
    ELSE LET clean_json == ReSearch(response.text)
         IN  IF clean_json # <<>> /\ JsonValid(clean_json)
             THEN JsonLoads(clean_json)
             ELSE <<>>

\* pd.DataFrame(extracted): one row per object, NaN where a key is missing.
DataFrame(extracted) ==
    [j \in 1..Len(extracted) |->
        [c \in Columns |->
            IF c \in ObjectKeys /\ extracted[j][c] # Absent
            THEN extracted[j][c]
            ELSE NaN]]

DataFrameColumns(extracted) ==
    {c \in ObjectKeys : \E j \in 1..Len(extracted) : extracted[j][c] # Absent}

Normalize_keep_status(df, t) ==
    [j \in 1..Len(df) |->
        [df[j] EXCEPT !["Status"] = IF @ = NaN THEN "Pending" ELSE @,
                      !["Last Updated"] = Strftime(t)]]

Normalize_raw_time(df, t) ==
    [j \in 1..Len(df) |->
        [df[j] EXCEPT !["Status"] = "Pending",
                      !["Last Updated"] = ToString(t)]]

\* df_new["Status"] = "Pending"; df_new["Last Updated"] = now.strftime(..)
Normalize(df, t) ==
    [j \in 1..Len(df) |->
        [df[j] EXCEPT !["Status"] = "Pending",
                      !["Last Updated"] = Strftime(t)]]

\* ---- variants of the concatenation (used to probe the properties)
RECURSIVE Upsert(_, _)
Upsert(reg, df_new) ==
    IF df_new = <<>> THEN reg
    ELSE LET r == Head(df_new)
             hit == {i \in 1..Len(reg) : reg[i]["Ref ID"] = r["Ref ID"]}
         IN  IF IsEmptyRef(r["Ref ID"]) \/ hit = {}
             THEN Upsert(Append(reg, r), Tail(df_new))
             ELSE Upsert(
                    [i \in 1..Len(reg) |->
                        IF i \in hit
                        THEN [r EXCEPT !["Status"] = reg[i]["Status"],
                                       !["Last Updated"] = reg[i]["Last Updated"]]
                        ELSE reg[i]],
                    Tail(df_new))

Concat_upsert(reg, df_new) == Upsert(reg, df_new)

\* pd.concat(...).drop_duplicates(subset="Ref ID", keep="last")
Concat_drop_duplicates(reg, df_new) ==
    LET all == reg \o df_new
        keep == {i \in 1..Len(all) :
                    \A j \in (i + 1)..Len(all) : all[j]["Ref ID"] # all[i]["Ref ID"]}
        Pick(i) == CHOOSE m \in keep : Cardinality({x \in keep : x < m}) = i - 1
    IN  [i \in 1..Cardinality(keep) |-> all[Pick(i)]]

\* the whole register re-stamped with the newest Last Updated
Concat_restamp(reg, df_new) ==
    IF df_new = <<>> THEN reg
    ELSE [i \in 1..Len(reg) |->
            [reg[i] EXCEPT !["Last Updated"] = df_new[1]["Last Updated"]]] \o df_new

\* rows of the same upload with the same Ref ID collapse to the first
Concat_first_of_batch(reg, df_new) ==
    reg \o SelectSeq(
        [j \in 1..Len(df_new) |->
            [row |-> df_new[j],
             dup |-> \E m \in 1..(j - 1) : df_new[m]["Ref ID"] = df_new[j]["Ref ID"]]],
        LAMBDA x : ~x.dup)

\* pd.concat([notice_register, df_new], ignore_index=True)
Concat(reg, df_new) == reg \o df_new

SetStatus_no_stamp(reg, selected_index, new_status, t) ==
    [reg EXCEPT ![selected_index] = [@ EXCEPT !["Status"] = new_status]]

\* .at[selected_index, "Status"] = new_status;
\* .at[selected_index, "Last Updated"] = now.strftime(..)
SetStatus(reg, selected_index, new_status, t) ==
    [reg EXCEPT ![selected_index] =
        [@ EXCEPT !["Status"] = new_status, !["Last Updated"] = Strftime(t)]]

\* -------------------------------------------------------------------- Init
Init ==
    /\ notice_register = <<>>
    /\ columns = {}
    /\ now = 59
    /\ last = NoOp

\* ----------------------------------------------------------------- actions
\* "Process Documents": has_text says whether any uploaded PDF gave text.
ProcessDocuments ==
    \E has_text \in BOOLEAN,
       response \in Responses(MaxRows - Len(notice_register)),
       t \in Times :
        LET extracted == IF has_text THEN extract_with_ai_batch(response) ELSE <<>>
            df_new == Normalize(DataFrame(extracted), t)
        IN  /\ has_text \/ (response.text = <<>> /\ ~response.raises)
            /\ Len(notice_register) + Len(extracted) <= MaxRows
            /\ IF extracted # <<>>
               THEN /\ notice_register' = Concat(notice_register, df_new)
                    /\ columns' = columns \cup DataFrameColumns(extracted)
                                          \cup {"Status", "Last Updated"}
                    /\ now' = t
               ELSE /\ t = now
                    /\ UNCHANGED <<notice_register, columns, now>>
            /\ last' = [op |-> "process", has_text |-> has_text,
                        response |-> response, extracted |-> extracted,
                        selected_index |-> 0, new_status |-> "Pending"]

\* "Confirm Update": the select boxes offer the register's rows and the
\* STATUS_OPTIONS; rendering them reads the Ref ID and Source columns.
ConfirmUpdate ==
    /\ notice_register # <<>>
    /\ {"Ref ID", "Source"} \subseteq columns
    /\ \E selected_index \in 1..Len(notice_register),
          new_status \in StatusSet,
          t \in Times :
        /\ notice_register' = SetStatus(notice_register, selected_index, new_status, t)
        /\ now' = t
        /\ last' = [op |-> "update", has_text |-> FALSE,
                    response |-> [raises |-> FALSE, text |-> <<>>],
                    extracted |-> <<>>, selected_index |-> selected_index,
                    new_status |-> new_status]
    /\ UNCHANGED columns

Next == ProcessDocuments \/ ConfirmUpdate

Spec == Init /\ [][Next]_vars

\* ------------------------------------------------------ shared vocabulary
Cell(r, f) == IF r[f] = Absent THEN NaN ELSE r[f]

CountRef(rows, R) == Cardinality({i \in 1..Len(rows) : rows[i]["Ref ID"] = R})

CountEmpty(rows) == Cardinality({i \in 1..Len(rows) : IsEmptyRef(rows[i]["Ref ID"])})

RefIds == {r["Ref ID"] : r \in RawRecords} \ {NaN, Absent, "", "None"}

\* rows the register had before the last ingestion
PreLen == Len(notice_register) - Len(last.extracted)

\* the record was in the register before the step and is the same after it
KeepsRows ==
    /\ Len(notice_register') >= Len(notice_register)
    /\ \A i \in 1..Len(notice_register) : notice_register'[i] = notice_register[i]

\* row i of the register after the step is incoming record r, normalized
IsNewRow(i, r) ==
    /\ i \in 1..Len(notice_register')
    /\ \A f \in ExtractedFields : notice_register'[i][f] = Cell(r, f)
    /\ notice_register'[i]["Status"] = "Pending"
    /\ notice_register'[i]["Last Updated"] = Strftime(now')

\* the response holds no parseable JSON array: the call raised, or the text
\* has no "[" followed by a "]", or prose stands between those brackets
NoParseableArray(response) ==
    \/ response.raises
    \/ ~\E i, j \in 1..Len(response.text) :
            i < j /\ response.text[i].k = "[" /\ response.text[j].k = "]"
    \/ \E i, m, j \in 1..Len(response.text) :
            /\ i < m /\ m < j
            /\ response.text[i].k = "[" /\ response.text[j].k = "]"
            /\ response.text[m].k # "obj"

C3_LastUpdatedNotReset ==
    [][/\ Len(notice_register') >= Len(notice_register)
       /\ \A i \in 1..Len(notice_register) :
            notice_register'[i]["Last Updated"] # notice_register[i]["Last Updated"]
                => (last'.op = "update" /\ last'.selected_index = i)
       /\ \A i \in (Len(notice_register) + 1)..Len(notice_register') :
            notice_register'[i]["Last Updated"] = Strftime(now')]_vars

\* a Ref ID re-ingested in a later minute than the one its record carries
C3_Witness ==
    /\ last.op = "process"
    /\ \E j \in 1..Len(last.extracted), i \in 1..PreLen :
        /\ ~IsEmptyRef(last.extracted[j]["Ref ID"])
        /\ notice_register[i]["Ref ID"] = last.extracted[j]["Ref ID"]
        /\ notice_register[i]["Last Updated"] # Strftime(now)

\* C4: after a status update of row selected_index to new_status at time t
\* the row has Status = new_status, a value of STATUS_OPTIONS, and
\* Last Updated = t (to the minute, as strftime writes it).
C4_StatusUpdate ==
    last.op = "update" =>
        /\ last.selected_index \in 1..Len(notice_register)
        /\ last.new_status \in StatusSet
        /\ notice_register[last.selected_index]["Status"] = last.new_status
        /\ notice_register[last.selected_index]["Last Updated"] = Strftime(now)

\* a row created in one minute and closed in the next
C4_Witness ==
    /\ last.op = "update"
    /\ last.new_status = "Closed"
    /\ Len(notice_register) = 2
    /\ last.selected_index = 2
    /\ notice_register[1]["Last Updated"] # notice_register[2]["Last Updated"]

\* C6: every record of the register has a Status of STATUS_OPTIONS, also
\* when the extraction client supplied a Status of its own.
C6_StatusEnum ==
    \A i \in 1..Len(notice_register) : notice_register[i]["Status"] \in StatusSet

\* a record ingested from an object that carried the client's own Status
C6_Witness ==
    /\ last.op = "process"
    /\ \E j \in 1..Len(last.extracted) :
        /\ last.extracted[j]["Status"] \notin StatusSet \cup {Absent}
        /\ notice_register[PreLen + j]["GSTIN"] = last.extracted[j]["GSTIN"]

\* C7: an incoming record whose non-empty Ref ID is in no record of the
\* register is appended with Status "Pending" and Last Updated = the
\* ingestion time, the records already there are unchanged, and ingesting
\* it alone makes the register exactly one longer.
C7_NewIdAppend ==
    [][last'.op = "process" =>
        \A j \in 1..Len(last'.extracted) :
            LET r == last'.extracted[j]
                R == r["Ref ID"]
            IN  (~IsEmptyRef(R) /\ CountRef(notice_register, R) = 0) =>
                    /\ KeepsRows
                    /\ IsNewRow(Len(notice_register) + j, r)
                    /\ (Len(last'.extracted) = 1 =>
                            Len(notice_register') = Len(notice_register) + 1)]_vars

\* a new Ref ID ingested alone into a register that already has a record
C7_Witness ==
    /\ last.op = "process"
    /\ Len(last.extracted) = 1
    /\ PreLen >= 1
    /\ ~IsEmptyRef(last.extracted[1]["Ref ID"])
    /\ CountRef(notice_register, last.extracted[1]["Ref ID"]) = 1

C9_ExtractionFailure ==
    /\ [][(last'.op = "process" /\ last'.has_text
            /\ NoParseableArray(last'.response)) =>
                /\ last'.extracted = <<>>
                /\ notice_register' = notice_register
                /\ columns' = columns]_vars
    /\ []((last.op = "process" /\ last.has_text
            /\ NoParseableArray(last.response)) =>
                /\ ENABLED ProcessDocuments
                /\ (notice_register # <<>> /\ {"Ref ID", "Source"} \subseteq columns)
                      => ENABLED ConfirmUpdate)

\* a response with an object and prose between its brackets, received when
\* the register already has a record
C9_Witness ==
    /\ last.op = "process"
    /\ last.has_text
    /\ ~last.response.raises
    /\ NoParseableArray(last.response)
    /\ \E m \in 1..Len(last.response.text) : last.response.text[m].k = "obj"
    /\ notice_register # <<>>

====
